---------------------------- MODULE Spec2Model ----------------------------
(* Model of meta-extractor (src/meta-extractor/main.go): the delta codec    *)
(* for paths, the rotating writer that compresses sealed segments, the      *)
(* resume protocol of main/walkDirectory and inflateDirectory.              *)
(*                                                                          *)
(* A Go string is a sequence of one-character strings, so that Split,       *)
(* Index, HasPrefix, Atoi, Sprintf and filepath.Clean/Dir/Base/Join are     *)
(* computed character by character as the library computes them.            *)
EXTENDS Integers, Sequences, FiniteSets, TLC

(***************************************************************************)
(* Strings                                                                 *)
(***************************************************************************)
Sep == "/"

Digits == <<"0", "1", "2", "3", "4", "5", "6", "7", "8", "9">>

IsDigit(c) == \E i \in 1..10 : Digits[i] = c

DigitVal(c) == (CHOOSE i \in 1..10 : Digits[i] = c) - 1

\* strings.HasPrefix(s, "-")
HasDashPrefix(s) == Len(s) > 0 /\ s[1] = "-"

\* strings.Index(s, c) for a one-character c: 0-based, -1 when absent
Index(s, c) ==
    IF \E i \in 1..Len(s) : s[i] = c
    THEN (CHOOSE i \in 1..Len(s) : s[i] = c /\ \A j \in 1..(i - 1) : s[j] # c) - 1
    ELSE -1

\* the last 0-based index of c in s, -1 when absent
LastIndex(s, c) ==
    IF \E i \in 1..Len(s) : s[i] = c
    THEN (CHOOSE i \in 1..Len(s) : s[i] = c /\ \A j \in (i + 1)..Len(s) : s[j] # c) - 1
    ELSE -1

\* strings.Split(s, sep) for a one-character sep
RECURSIVE Split(_, _)
Split(s, sep) ==
    LET i == Index(s, sep)
    IN  IF i = -1 THEN <<s>>
        ELSE <<SubSeq(s, 1, i)>> \o Split(SubSeq(s, i + 2, Len(s)), sep)

\* strings.Join(parts, sep)
RECURSIVE JoinStr(_, _)
JoinStr(parts, sep) ==
    IF Len(parts) = 0 THEN <<>>
    ELSE IF Len(parts) = 1 THEN parts[1]
    ELSE parts[1] \o <<sep>> \o JoinStr(Tail(parts), sep)

\* the element loop of filepath.Clean: drops empty and "." elements and
\* resolves ".." against the elements kept so far
RECURSIVE CleanParts(_, _, _)
CleanParts(parts, out, rooted) ==
    IF Len(parts) = 0 THEN out
    ELSE LET p == parts[1]
             rest == Tail(parts)
         IN  IF p = <<>> \/ p = <<".">> THEN CleanParts(rest, out, rooted)
             ELSE IF p = <<".", ".">>
                  THEN IF Len(out) > 0 /\ out[Len(out)] # <<".", ".">>
                       THEN CleanParts(rest, SubSeq(out, 1, Len(out) - 1), rooted)
                       ELSE IF rooted THEN CleanParts(rest, out, rooted)
                            ELSE CleanParts(rest, Append(out, p), rooted)
                  ELSE CleanParts(rest, Append(out, p), rooted)

\* filepath.Clean
Clean(path) ==
    IF path = <<>> THEN <<".">>
    ELSE LET rooted == path[1] = Sep
             body == JoinStr(CleanParts(Split(path, Sep), <<>>, rooted), Sep)
         IN  IF rooted THEN <<Sep>> \o body
             ELSE IF body = <<>> THEN <<".">> ELSE body

\* filepath.Dir: everything up to the last separator, cleaned
Dir(path) == Clean(SubSeq(path, 1, LastIndex(path, Sep) + 1))

\* path with its trailing separators removed (the loop of filepath.Base)
RECURSIVE StripTrailingSep(_)
StripTrailingSep(path) ==
    IF Len(path) > 0 /\ path[Len(path)] = Sep
    THEN StripTrailingSep(SubSeq(path, 1, Len(path) - 1))
    ELSE path

\* filepath.Base
Base(path) ==
    IF path = <<>> THEN <<".">>
    ELSE LET p == StripTrailingSep(path)
         IN  IF p = <<>> THEN <<Sep>>
             ELSE SubSeq(p, LastIndex(p, Sep) + 2, Len(p))

\* filepath.Join(a, b): empty elements are ignored, the rest is cleaned
Join(a, b) ==
    IF a # <<>> THEN Clean(a \o <<Sep>> \o b)
    ELSE IF b # <<>> THEN Clean(b)
    ELSE <<>>

\* fmt.Sprintf("%d", n) for n >= 0
RECURSIVE Itoa(_)
Itoa(n) ==
    IF n < 10 THEN <<Digits[n + 1]>>
    ELSE Itoa(n \div 10) \o <<Digits[(n % 10) + 1]>>

\* the value of a non-empty string of decimal digits
RECURSIVE DigitsVal(_)
DigitsVal(s) ==
    IF Len(s) = 0 THEN 0
    ELSE 10 * DigitsVal(SubSeq(s, 1, Len(s) - 1)) + DigitVal(s[Len(s)])

\* strconv.Atoi: an optional sign, then one or more decimal digits
Atoi(s) ==
    LET signed == Len(s) > 0 /\ (s[1] = "-" \/ s[1] = "+")
        ds == IF signed THEN Tail(s) ELSE s
    IN  IF Len(ds) = 0 \/ \E i \in 1..Len(ds) : ~IsDigit(ds[i])
        THEN [ok |-> FALSE, val |-> 0]
        ELSE [ok |-> TRUE,
              val |-> IF signed /\ s[1] = "-" THEN 0 - DigitsVal(ds) ELSE DigitsVal(ds)]

(***************************************************************************)
(* The delta codec                                                         *)
(***************************************************************************)
\* the length of the common leading prefix of two sequences of parts
RECURSIVE CommonLen(_, _)
CommonLen(a, b) ==
    IF Len(a) = 0 \/ Len(b) = 0 \/ a[1] # b[1] THEN 0
    ELSE 1 + CommonLen(Tail(a), Tail(b))

\* a variant of calculateDeltaPath that writes the file name only
calculateDeltaPath_name(lastPath, currentPath) == Base(currentPath)

\* calculateDeltaPath: the line written for currentPath after lastPath
calculateDeltaPath(lastPath, currentPath) ==
    IF lastPath = <<>> THEN currentPath
    ELSE LET lastParts == Split(Dir(lastPath), Sep)
             currentParts == Split(Dir(currentPath), Sep)
             commonLen == CommonLen(lastParts, currentParts)
             levelsUp == Len(lastParts) - commonLen
             newParts == SubSeq(currentParts, commonLen + 1, Len(currentParts))
                         \o <<Base(currentPath)>>
             newSuffix == JoinStr(newParts, Sep)
         IN  IF levelsUp = 0 THEN newSuffix
             ELSE <<"-">> \o Itoa(levelsUp) \o <<":">> \o newSuffix

Decoded(p) == [err |-> "none", path |-> p]

DecodeError(e) == [err |-> e, path |-> <<>>]

\* reconstructPath: the path a line stands for after lastPath, or the error
\* it returns ("format": no ':', "levels": Atoi failed, "depth": cannot go
\* up; "panic": the slice expression parts[:len(parts)-levelsUp] is out of
\* range, which happens for a negative levelsUp)
reconstructPath(lastPath, deltaPath) ==
    IF lastPath = <<>> \/ ~HasDashPrefix(deltaPath)
    THEN IF lastPath # <<>> /\ ~HasDashPrefix(deltaPath)
         THEN Decoded(Join(Dir(lastPath), deltaPath))
         ELSE Decoded(deltaPath)
    ELSE LET colonIdx == Index(deltaPath, ":")
         IN  IF colonIdx = -1 THEN DecodeError("format")
             ELSE LET levelsUpStr == SubSeq(deltaPath, 2, colonIdx)
                      suffix == SubSeq(deltaPath, colonIdx + 2, Len(deltaPath))
                      levels == Atoi(levelsUpStr)
                      parts == Split(Dir(lastPath), Sep)
                  IN  IF ~levels.ok THEN DecodeError("levels")
                      ELSE IF levels.val > Len(parts) THEN DecodeError("depth")
                      ELSE IF levels.val < 0 THEN DecodeError("panic")
                      ELSE LET kept == SubSeq(parts, 1, Len(parts) - levels.val)
                               newPath == JoinStr(kept, Sep)
                           IN  IF Len(kept) = 0 THEN Decoded(suffix)
                               ELSE IF suffix # <<>> THEN Decoded(Join(newPath, suffix))
                               ELSE Decoded(newPath)

\* the byte order of the characters of the names
CharOrder == <<"-", ".", "/", "0", "1", "2", "3", "4", "5", "6", "7", "8", "9", ":",
               "a", "b", "c", "e", "f", "g", "l", "o", "t", "u", "z">>

CharRank(c) == CHOOSE i \in 1..Len(CharOrder) : CharOrder[i] = c

\* s < t as byte strings
RECURSIVE StrLess(_, _)
StrLess(s, t) ==
    IF Len(t) = 0 THEN FALSE
    ELSE IF Len(s) = 0 THEN TRUE
    ELSE IF s[1] # t[1] THEN CharRank(s[1]) < CharRank(t[1])
    ELSE StrLess(Tail(s), Tail(t))

(***************************************************************************)
(* The output directory                                                    *)
(*                                                                         *)
(* fs.plain[n] is the content (a sequence of lines) of out.<n>.log and     *)
(* fs.gz[n] the compressed artifact out.<n>.log.gz: the lines it holds and *)
(* whether it is a complete gzip stream. fs.resume is resume.path and      *)
(* fs.stray the names of the other entries of the directory.               *)
(***************************************************************************)
Put(f, n, v) == [k \in (DOMAIN f) \cup {n} |-> IF k = n THEN v ELSE f[k]]

Drop(f, n) == [k \in (DOMAIN f) \ {n} |-> f[k]]

NoFile == [exists |-> FALSE, data |-> <<>>]

EmptyDir ==
    [exists |-> TRUE, plain |-> <<>>, gz |-> <<>>, resume |-> NoFile, stray |-> {}]

\* fmt.Sprintf("out.%d.log", n)
LogName(n) == <<"o", "u", "t", ".">> \o Itoa(n) \o <<".", "l", "o", "g">>

\* the name compressFile gives the artifact: filePath + ".gz"
GzName(n) == LogName(n) \o <<".", "g", "z">>

\* os.ReadDir(outDir): the names of the entries
ReadDir(fs) ==
    {LogName(n) : n \in DOMAIN fs.plain} \cup {GzName(n) : n \in DOMAIN fs.gz}
        \cup (IF fs.resume.exists
              THEN {<<"r", "e", "s", "u", "m", "e", ".", "p", "a", "t", "h">>}
              ELSE {})
        \cup fs.stray

HasPrefix(s, p) == Len(s) >= Len(p) /\ SubSeq(s, 1, Len(p)) = p

HasSuffix(s, p) == Len(s) >= Len(p) /\ SubSeq(s, Len(s) - Len(p) + 1, Len(s)) = p

\* the length of the longest run of decimal digits that s starts with
RECURSIVE DigitRun(_)
DigitRun(s) ==
    IF Len(s) > 0 /\ IsDigit(s[1]) THEN 1 + DigitRun(Tail(s)) ELSE 0

\* the number of spaces s starts with (fmt's SkipSpace before a verb)
RECURSIVE SpaceRun(_)
SpaceRun(s) ==
    IF Len(s) > 0 /\ s[1] = " " THEN 1 + SpaceRun(Tail(s)) ELSE 0

\* fmt.Sscanf(name, "out.%d" + suffix, &num): the literal "out.", then
\* optional spaces, an optional sign and decimal digits, then the literal
\* suffix; input after the suffix is not read
Sscanf(name, suffix) ==
    LET pre == <<"o", "u", "t", ".">>
        fail == [ok |-> FALSE, num |-> 0]
    IN  IF ~HasPrefix(name, pre) THEN fail
        ELSE LET r0 == SubSeq(name, 5, Len(name))
                 r1 == SubSeq(r0, SpaceRun(r0) + 1, Len(r0))
                 signed == Len(r1) > 0 /\ (r1[1] = "-" \/ r1[1] = "+")
                 r2 == IF signed THEN Tail(r1) ELSE r1
                 k == DigitRun(r2)
                 v == DigitsVal(SubSeq(r2, 1, k))
                 r3 == SubSeq(r2, k + 1, Len(r2))
             IN  IF k = 0 \/ ~HasPrefix(r3, suffix) THEN fail
                 ELSE [ok |-> TRUE,
                       num |-> IF signed /\ r1[1] = "-" THEN 0 - v ELSE v]

DotLog == <<".", "l", "o", "g">>

DotLogGz == <<".", "l", "o", "g", ".", "g", "z">>

\* the number findLastFileNumber reads from one entry name, 0 when the
\* entry is not counted
EntryNumber(name) ==
    IF HasPrefix(name, <<"o", "u", "t", ".">>)
       /\ (HasSuffix(name, DotLog) \/ HasSuffix(name, DotLogGz))
    THEN LET r == IF HasSuffix(name, DotLogGz) THEN Sscanf(name, DotLogGz)
                  ELSE Sscanf(name, DotLog)
         IN  IF r.ok /\ r.num > 0 THEN r.num ELSE 0
    ELSE 0

SetMax(S) == IF S = {} THEN 0 ELSE CHOOSE m \in S : \A x \in S : x <= m

\* findLastFileNumber: the highest N among the entries, 0 if none
findLastFileNumber(fs) ==
    IF ~fs.exists THEN 0
    ELSE SetMax({EntryNumber(name) : name \in ReadDir(fs)} \cup {0})

(***************************************************************************)
(* compressFile                                                            *)
(*                                                                         *)
(* cmp is what the I/O does: "ok"; "nogz": os.Open or os.Create fails;     *)
(* "partial": io.Copy or the gzip Close fails and leaves a truncated       *)
(* artifact; "noremove": os.Remove of the plaintext fails.                 *)
(***************************************************************************)
CompressOutcomes == {"ok", "nogz", "partial", "noremove"}

\* a variant of compressFile that removes the plaintext whatever happened
compressFile_remove(fs, n, cmp) ==
    [fs |-> [fs EXCEPT !.plain = Drop(fs.plain, n),
                       !.gz = Put(fs.gz, n, [lines |-> IF cmp = "ok" THEN fs.plain[n] ELSE <<>>,
                                             complete |-> cmp = "ok"])],
     err |-> IF cmp = "ok" THEN "nil" ELSE "compress"]

compressFile(fs, n, cmp) ==
    IF n \notin DOMAIN fs.plain \/ cmp = "nogz" THEN [fs |-> fs, err |-> "compress"]
    ELSE IF cmp = "partial"
    THEN [fs |-> [fs EXCEPT !.gz = Put(fs.gz, n, [lines |-> <<>>, complete |-> FALSE])],
          err |-> "compress"]
    ELSE [fs |-> [fs EXCEPT !.gz = Put(fs.gz, n, [lines |-> fs.plain[n],
                                                  complete |-> TRUE]),
                            !.plain = IF cmp = "noremove" THEN @ ELSE Drop(@, n)],
          err |-> IF cmp = "noremove" THEN "compress" ELSE "nil"]

(***************************************************************************)
(* RotatingWriter                                                          *)
(*                                                                         *)
(* currentFile is the number of the segment the open handle belongs to, 0  *)
(* for nil; closed: the handle has been closed; currentFilePath is kept as *)
(* the segment number too, 0 for "".                                       *)
(***************************************************************************)
\* maxFileSize is 200 MiB in the program; the model scales it down to a few
\* lines
maxFileSize == 9

NoWriter ==
    [currentFile |-> 0, closed |-> FALSE, currentFilePath |-> 0, currentSize |-> 0,
     fileNumber |-> 0, totalBytesWritten |-> 0, maxFiles |-> 0, lastWrittenPath |-> <<>>]

\* a variant of the test that lets one more file be created
MaxFilesReached_late(rw) == rw.maxFiles > 0 /\ rw.fileNumber > rw.maxFiles + 1

\* the first test of rotate: the maximum number of files has been reached
MaxFilesReached(rw) == rw.maxFiles > 0 /\ rw.fileNumber > rw.maxFiles

\* a variant of CreateNext that keeps the size of the file before
CreateNext_keepSize(rw, c) ==
    IF c.err # "nil"
    THEN [rw |-> IF rw.currentFile # 0 THEN [rw EXCEPT !.closed = TRUE] ELSE rw,
          fs |-> c.fs, err |-> c.err]
    ELSE [rw |-> [rw EXCEPT !.currentFile = rw.fileNumber,
                            !.closed = FALSE,
                            !.currentFilePath = rw.fileNumber,
                            !.fileNumber = rw.fileNumber + 1],
          fs |-> [c.fs EXCEPT !.plain = Put(c.fs.plain, rw.fileNumber, <<>>)],
          err |-> "nil"]

\* the second half of rotate, given the result c of closing and compressing
\* the current file: the next file is created unless that failed
CreateNext(rw, c) ==
    IF c.err # "nil"
    THEN [rw |-> IF rw.currentFile # 0 THEN [rw EXCEPT !.closed = TRUE] ELSE rw,
          fs |-> c.fs, err |-> c.err]
    ELSE [rw |-> [rw EXCEPT !.currentFile = rw.fileNumber,
                            !.closed = FALSE,
                            !.currentFilePath = rw.fileNumber,
                            !.currentSize = 0,
                            !.fileNumber = rw.fileNumber + 1],
          fs |-> [c.fs EXCEPT !.plain = Put(c.fs.plain, rw.fileNumber, <<>>)],
          err |-> "nil"]

\* a variant of rotate that tests the maximum after it has sealed the
\* current file
rotate_sealFirst(rw, fs, cmp) ==
    IF rw.currentFile # 0 /\ rw.closed
    THEN [rw |-> rw, fs |-> fs, err |-> "close"]
    ELSE IF MaxFilesReached(rw)
    THEN [rw |-> [rw EXCEPT !.closed = TRUE],
          fs |-> compressFile(fs, rw.currentFilePath, cmp).fs,
          err |-> "ErrMaxFilesReached"]
    ELSE CreateNext(rw, IF rw.currentFile # 0 /\ rw.currentFilePath # 0
                        THEN compressFile(fs, rw.currentFilePath, cmp)
                        ELSE [fs |-> fs, err |-> "nil"])

\* rotate: seals the current file, if any, and creates the next one
rotate(rw, fs, cmp) ==
    IF MaxFilesReached(rw)
    THEN [rw |-> rw, fs |-> fs, err |-> "ErrMaxFilesReached"]
    ELSE IF rw.currentFile # 0 /\ rw.closed
    THEN [rw |-> rw, fs |-> fs, err |-> "close"]
    ELSE CreateNext(rw, IF rw.currentFile # 0 /\ rw.currentFilePath # 0
                        THEN compressFile(fs, rw.currentFilePath, cmp)
                        ELSE [fs |-> fs, err |-> "nil"])

\* NewRotatingWriter: creates the directory and the first file
NewRotatingWriter(fs, maxFiles, startFileNum) ==
    rotate([NoWriter EXCEPT !.fileNumber = startFileNum, !.maxFiles = maxFiles],
           [fs EXCEPT !.exists = TRUE], "ok")

\* a variant of the rotation test of WritePath that never rotates
NeedRotate_never(currentSize, lineSize) == FALSE

\* the rotation test of WritePath
NeedRotate(currentSize, lineSize) == currentSize + lineSize > maxFileSize

\* the second half of WritePath, given the result r of the rotation: the
\* line is written to the current file and the counters are updated
WriteLine(r, fullPath, deltaPath) ==
    IF r.err # "nil" THEN r
    ELSE IF r.rw.closed THEN [rw |-> r.rw, fs |-> r.fs, err |-> "write"]
    ELSE [rw |-> [r.rw EXCEPT !.currentSize = @ + Len(deltaPath) + 1,
                              !.totalBytesWritten = @ + Len(deltaPath) + 1,
                              !.lastWrittenPath = fullPath],
          fs |-> [r.fs EXCEPT !.plain[r.rw.currentFile] = Append(@, deltaPath)],
          err |-> "nil"]

\* the first half of WritePath, given the line: rotate when it does not fit
WriteDelta(rw, fs, fullPath, deltaPath, cmp) ==
    WriteLine(IF NeedRotate(rw.currentSize, Len(deltaPath) + 1) THEN rotate(rw, fs, cmp)
              ELSE [rw |-> rw, fs |-> fs, err |-> "nil"],
              fullPath, deltaPath)

\* a variant of WritePath whose line depends on the state of the writer: the
\* path is written in full at the start of a file
WritePath_fullAtStart(rw, fs, fullPath, cmp) ==
    WriteDelta(rw, fs, fullPath,
               IF rw.currentSize = 0 \/ NeedRotate(rw.currentSize,
                      Len(calculateDeltaPath(rw.lastWrittenPath, fullPath)) + 1)
               THEN fullPath
               ELSE calculateDeltaPath(rw.lastWrittenPath, fullPath), cmp)

\* a variant of WritePath that updates the last written path before it
\* rotates and writes
WritePath_updateFirst(rw, fs, fullPath, cmp) ==
    WriteDelta([rw EXCEPT !.lastWrittenPath = fullPath], fs, fullPath,
               calculateDeltaPath(rw.lastWrittenPath, fullPath), cmp)

\* WritePath: encodes fullPath against the last written path, rotates when
\* the line does not fit, and appends the line to the current file
WritePath(rw, fs, fullPath, cmp) ==
    WriteDelta(rw, fs, fullPath, calculateDeltaPath(rw.lastWrittenPath, fullPath), cmp)

\* a variant of Close that leaves the final file as it is
Close_nocompress(rw, fs, cmp) == [rw |-> rw, fs |-> fs, err |-> "nil"]

\* the end of Close, given the result c of compressing the final file
Closed(rw, c) == [rw |-> [rw EXCEPT !.closed = TRUE], fs |-> c.fs, err |-> c.err]

\* Close: closes and compresses the final file
Close(rw, fs, cmp) ==
    IF rw.currentFile = 0 THEN [rw |-> rw, fs |-> fs, err |-> "nil"]
    ELSE IF rw.closed THEN [rw |-> rw, fs |-> fs, err |-> "close"]
    ELSE Closed(rw, IF rw.currentFilePath # 0 THEN compressFile(fs, rw.currentFilePath, cmp)
                    ELSE [fs |-> fs, err |-> "nil"])

(***************************************************************************)
(* inflateDirectory                                                        *)
(***************************************************************************)
\* files[i], files[j] = files[j], files[i]
Swap(files, i, j) ==
    [k \in 1..Len(files) |-> IF k = i THEN files[j] ELSE IF k = j THEN files[i]
                             ELSE files[k]]

\* the two loops of the sort, from positions i < j on (counted from 1)
RECURSIVE SortLoop(_, _, _)
SortLoop(files, i, j) ==
    IF i >= Len(files) THEN files
    ELSE IF j > Len(files) THEN SortLoop(files, i + 1, i + 2)
    ELSE SortLoop(IF files[i] > files[j] THEN Swap(files, i, j) ELSE files, i, j + 1)

\* a variant of the sort that leaves the files in the order of the listing
SortByNum_listing(files) == files

\* the sort of the collected files by their number
SortByNum(files) == SortLoop(files, 1, 2)

\* the scanner loop over the lines of one file, from line number lineNum
RECURSIVE InflateLines(_, _, _, _)
InflateLines(lines, lastPath, out, lineNum) ==
    IF Len(lines) = 0 THEN [err |-> "nil", line |-> 0, lastPath |-> lastPath, out |-> out]
    ELSE LET d == reconstructPath(lastPath, lines[1])
         IN  IF d.err # "none"
             THEN [err |-> d.err, line |-> lineNum, lastPath |-> lastPath, out |-> out]
             ELSE InflateLines(Tail(lines), d.path, Append(out, d.path), lineNum + 1)

\* the loop over the files in order, lastPath carried from file to file
\* a variant of InflateFile that numbers the lines across the files, as
\* totalLines does
InflateFile_total(lines, lastPath, out) ==
    InflateLines(lines, lastPath, out, Len(out) + 1)

\* a variant of InflateFile that loses the paths of the file it fails in, as
\* a buffered output that is not flushed would
InflateFile_unflushed(lines, lastPath, out) ==
    IF InflateLines(lines, lastPath, out, 1).err # "nil"
    THEN [InflateLines(lines, lastPath, out, 1) EXCEPT !.out = out]
    ELSE InflateLines(lines, lastPath, out, 1)

\* a variant of InflateFile that forgets lastPath at the start of a file
InflateFile_reset(lines, lastPath, out) == InflateLines(lines, <<>>, out, 1)

\* the scanner loop over one file: lineNum starts anew
InflateFile(lines, lastPath, out) == InflateLines(lines, lastPath, out, 1)

\* order is the sequence of the files opened so far
RECURSIVE InflateFiles(_, _, _, _, _)
InflateFiles(files, fs, lastPath, out, order) ==
    IF Len(files) = 0
    THEN [err |-> "nil", seg |-> 0, line |-> 0, out |-> out, order |-> order]
    ELSE LET n == files[1]
             r == InflateFile(fs.gz[n].lines, lastPath, out)
             opened == Append(order, n)
         IN  IF r.err # "nil"
             THEN [err |-> r.err, seg |-> n, line |-> r.line, out |-> r.out,
                   order |-> opened]
             ELSE IF ~fs.gz[n].complete
             THEN [err |-> "read", seg |-> n, line |-> 0, out |-> r.out,
                   order |-> opened]
             ELSE InflateFiles(Tail(files), fs, r.lastPath, r.out, opened)

\* the entries inflateDirectory collects: out.N.log.gz, by the number read
\* from the name
GzNumbers(fs) ==
    {Sscanf(GzName(n), DotLogGz).num :
        n \in {k \in DOMAIN fs.gz : HasPrefix(GzName(k), <<"o", "u", "t", ".">>)
                                    /\ HasSuffix(GzName(k), DotLogGz)
                                    /\ Sscanf(GzName(k), DotLogGz).ok}}

\* the numbers of S in the order os.ReadDir lists their files: by filename
RECURSIVE ListFiles(_)
ListFiles(S) ==
    IF S = {} THEN <<>>
    ELSE LET m == CHOOSE x \in S : \A y \in S \ {x} : StrLess(GzName(x), GzName(y))
         IN  <<m>> \o ListFiles(S \ {m})

\* inflateDirectory once the files have been collected, in the order of
\* the listing
InflateListed(files, fs) ==
    IF Len(files) = 0
    THEN [err |-> "nofiles", seg |-> 0, line |-> 0, out |-> <<>>, order |-> <<>>]
    ELSE InflateFiles(SortByNum(files), fs, <<>>, <<>>, <<>>)

inflateDirectory(fs) ==
    IF ~fs.exists
    THEN [err |-> "readdir", seg |-> 0, line |-> 0, out |-> <<>>, order |-> <<>>]
    ELSE InflateListed(ListFiles(GzNumbers(fs)), fs)

(***************************************************************************)
(* The source tree and filepath.WalkDir                                    *)
(***************************************************************************)
\* the names along a path, none for the root
Comps(path) == IF path = <<Sep>> THEN <<>> ELSE Tail(Split(path, Sep))

\* WalkDir visits p before q: a directory before its entries, and the
\* entries of a directory in the order of their names
RECURSIVE WalkBefore(_, _)
WalkBefore(p, q) ==
    IF Len(q) = 0 THEN FALSE
    ELSE IF Len(p) = 0 THEN TRUE
    ELSE IF p[1] # q[1] THEN StrLess(p[1], q[1])
    ELSE WalkBefore(Tail(p), Tail(q))

\* the directories above a file, the root included
RECURSIVE Ancestors(_)
Ancestors(path) ==
    LET d == Dir(path)
    IN  IF d = path THEN {} ELSE {d} \cup Ancestors(d)

RECURSIVE SortEntries(_)
SortEntries(S) ==
    IF S = {} THEN <<>>
    ELSE LET m == CHOOSE x \in S :
                      \A y \in S \ {x} : WalkBefore(Comps(x.path), Comps(y.path))
         IN  <<m>> \o SortEntries(S \ {m})

\* the entries filepath.WalkDir("/") passes to the callback, in order, for a
\* tree holding the files of the set
WalkDir(files) ==
    SortEntries({[path |-> f, isDir |-> FALSE] : f \in files}
                \cup {[path |-> d, isDir |-> TRUE] :
                        d \in UNION {Ancestors(f) : f \in files} \cup {<<Sep>>}})


(***************************************************************************)
(* State                                                                   *)
(***************************************************************************)
VARIABLES
    tree,      \* the files of the source tree (--dir /), as paths
    fs,        \* the output directory (--outDir)
    rw,        \* the RotatingWriter of the current or the last run
    run,       \* the locals of main and walkDirectory of the current run
    pc,        \* "idle": no run in progress; "walking": inside WalkDir
    ends,      \* how each run so far ended, in order
    hist,      \* every line written so far: its path, its segment, its run
    inflated,  \* the result of the last inflateDirectory
    count,     \* runs started, I/O failures injected, changes of the tree
    codec      \* a function on its own: its inputs and its result

vars == <<tree, fs, rw, run, pc, ends, hist, inflated, count, codec>>

\* bounds of the model
MaxRuns == 2

MaxFailures == 1

MaxTreeChanges == 1

MaxNumFiles == 2

MaxDepth == 2

MaxWrites == 3

\* the files a source tree is made of
LongName == <<"b", "b", "b", "b", "b", "b">>

TreeFiles ==
    {<<Sep, "a", Sep, "c">>,
     <<Sep, "a", Sep, "e", Sep, "f">>,
     <<Sep, "a", Sep, "g">>,
     <<Sep>> \o LongName \o <<Sep, "f">>}

\* run.present, run.failedCmp and run.refusedAfter are kept for the
\* properties only: the segment numbers in the directory when the run
\* started, the I/O outcome that made a step fail, and the writer's last
\* written path when a write was refused
NoRun ==
    [numFiles |-> 0, resume |-> FALSE, resumePath |-> <<>>, startFileNum |-> 0,
     walk |-> <<>>, pos |-> 0, lastDir |-> <<>>, currentPath |-> <<>>,
     resumeReached |-> FALSE, err |-> "nil", errPath |-> <<>>,
     present |-> {}, failedCmp |-> "ok", refusedAfter |-> <<>>]

NoInflate == [err |-> "none", seg |-> 0, line |-> 0, out |-> <<>>, order |-> <<>>]

NoCodec ==
    [pc |-> "off", prev |-> <<>>, cur |-> <<>>, tok |-> <<>>, out |-> Decoded(<<>>),
     startFileNum |-> 0, listing |-> <<>>]

NoCount == [runs |-> 0, fails |-> 0, muts |-> 0]

\* the I/O outcomes a step may meet
Cmp == IF count.fails < MaxFailures THEN CompressOutcomes ELSE {"ok"}

Failed(err) == IF err = "compress" THEN 1 ELSE 0

\* strings.TrimSpace, for the characters of the model
RECURSIVE TrimSpace(_)
TrimSpace(s) ==
    IF Len(s) > 0 /\ s[1] = " " THEN TrimSpace(Tail(s))
    ELSE IF Len(s) > 0 /\ s[Len(s)] = " " THEN TrimSpace(SubSeq(s, 1, Len(s) - 1))
    ELSE s

Init ==
    /\ tree \in (SUBSET TreeFiles) \ {{}}
    /\ fs \in {EmptyDir, [EmptyDir EXCEPT !.exists = FALSE]}
    /\ rw = NoWriter
    /\ run = NoRun
    /\ pc = "idle"
    /\ ends = <<>>
    /\ hist = <<>>
    /\ inflated = NoInflate
    /\ count = NoCount
    /\ codec = NoCodec

(***************************************************************************)
(* main                                                                    *)
(***************************************************************************)
EndOfRun(r, outcome, closeErr) ==
    [numFiles |-> r.numFiles, resume |-> r.resume, outcome |-> outcome,
     closeErr |-> closeErr, lastPath |-> r.errPath, refusedAfter |-> r.refusedAfter]

\* a variant of main that keeps the initial value of startFileNum
StartFileNum_initial(lastNum) == 1

\* the number of the first file of a run: startFileNum = lastNum + 1
StartFileNum(lastNum) == lastNum + 1

\* main up to the call of walkDirectory: the flags, resume.path,
\* findLastFileNumber and NewRotatingWriter. The process exits with status
\* 1 when resume.path cannot be read or the writer cannot be created.
BeginRun(numFiles, resume) ==
    /\ pc = "idle"
    /\ count' = [count EXCEPT !.runs = @ + 1]
    /\ inflated' = NoInflate
    /\ UNCHANGED <<tree, hist, codec>>
    /\ IF resume /\ ~fs.resume.exists
       THEN /\ run' = [NoRun EXCEPT !.numFiles = numFiles, !.resume = resume]
            /\ ends' = Append(ends, EndOfRun(run', "exit_resume", "nil"))
            /\ UNCHANGED <<fs, rw, pc>>
       ELSE \E resumePath \in {IF resume THEN TrimSpace(fs.resume.data) ELSE <<>>},
               startFileNum \in {StartFileNum(findLastFileNumber(fs))} :
            LET w == NewRotatingWriter(fs, numFiles, startFileNum)
                r == [NoRun EXCEPT !.numFiles = numFiles, !.resume = resume,
                                   !.resumePath = resumePath,
                                   !.startFileNum = startFileNum,
                                   !.present = (DOMAIN fs.plain) \cup (DOMAIN fs.gz)]
            IN  /\ fs' = w.fs
                /\ IF w.err # "nil"
                   THEN /\ run' = r
                        /\ ends' = Append(ends, EndOfRun(r, "exit_writer", "nil"))
                        /\ UNCHANGED <<rw, pc>>
                   ELSE /\ rw' = w.rw
                        /\ pc' = "walking"
                        /\ ends' = ends
                        /\ run' = [r EXCEPT !.walk = WalkDir(tree), !.pos = 1,
                                            !.resumeReached = (resumePath = <<>>)]

\* the program is started, at most MaxRuns times
StartRun(numFiles, resume) ==
    /\ count.runs < MaxRuns
    /\ BeginRun(numFiles, resume)

\* the callback after its call of WritePath, whose result is x
AfterWrite(r1, w, entry, x, cmp) ==
    IF x.err = "ErrMaxFilesReached"
    THEN [run |-> [r1 EXCEPT !.err = "MaxFilesError",
                             !.errPath = r1.currentPath,
                             !.refusedAfter = w.lastWrittenPath],
          rw |-> x.rw, fs |-> x.fs, err |-> x.err, wrote |-> FALSE]
    ELSE IF x.err # "nil"
    THEN [run |-> [r1 EXCEPT !.err = "failed to write path", !.failedCmp = cmp],
          rw |-> x.rw, fs |-> x.fs, err |-> x.err, wrote |-> FALSE]
    ELSE [run |-> [r1 EXCEPT !.lastDir = Dir(entry.path)],
          rw |-> x.rw, fs |-> x.fs, err |-> "nil", wrote |-> TRUE]

\* a variant of the resume test that resumes at the first entry
ResumePoint_first(path, resumePath) == TRUE

\* the resume test of the callback: path == resumePath
ResumePoint(path, resumePath) == path = resumePath

\* the callback walkDirectory gives WalkDir, for one entry
Callback(r, w, d, entry, cmp) ==
    IF ~r.resumeReached
    THEN [run |-> [r EXCEPT !.currentPath = entry.path, !.pos = @ + 1,
                            !.resumeReached = ResumePoint(entry.path, r.resumePath)],
          rw |-> w, fs |-> d, err |-> "nil", wrote |-> FALSE]
    ELSE IF ~entry.isDir /\ Dir(entry.path) # r.lastDir
    THEN AfterWrite([r EXCEPT !.currentPath = entry.path, !.pos = @ + 1],
                    w, entry, WritePath(w, d, entry.path, cmp), cmp)
    ELSE [run |-> [r EXCEPT !.currentPath = entry.path, !.pos = @ + 1],
          rw |-> w, fs |-> d, err |-> "nil", wrote |-> FALSE]

\* the line of the history for a path that WritePath has just written
Written(path, before, after, r) ==
    [path |-> path, line |-> calculateDeltaPath(before.lastWrittenPath, path),
     seg |-> after.currentFile, run |-> r]

\* WalkDir calls the callback for the next entry
WalkStep ==
    /\ pc = "walking"
    /\ run.err = "nil"
    /\ run.pos <= Len(run.walk)
    /\ \E cmp \in Cmp :
         \E c \in {Callback(run, rw, fs, run.walk[run.pos], cmp)} :
             /\ run' = c.run
             /\ rw' = c.rw
             /\ fs' = c.fs
             /\ count' = [count EXCEPT !.fails = @ + Failed(c.err)]
             /\ hist' = IF c.wrote
                        THEN Append(hist, Written(run.walk[run.pos].path, rw, c.rw,
                                                  count.runs))
                        ELSE hist
    /\ UNCHANGED <<tree, pc, ends, inflated, codec>>

\* walkDirectory returns: main saves resume.path when the limit was reached,
\* reports, and returns; the deferred writer.Close() runs
Finish ==
    /\ pc = "walking"
    /\ run.err # "nil" \/ run.pos > Len(run.walk)
    /\ \E cmp \in Cmp :
         \E c \in {Close(rw,
                          IF run.err = "MaxFilesError"
                          THEN [fs EXCEPT !.resume = [exists |-> TRUE, data |-> run.errPath]]
                          ELSE fs,
                          cmp)} :
             /\ fs' = c.fs
             /\ rw' = c.rw
             /\ count' = [count EXCEPT !.fails = @ + Failed(c.err)]
             /\ ends' = Append(ends,
                               EndOfRun(run,
                                        IF run.err = "MaxFilesError" THEN "maxfiles"
                                        ELSE IF run.err # "nil" THEN "error"
                                        ELSE "completed",
                                        c.err))
    /\ pc' = "idle"
    /\ UNCHANGED <<tree, run, hist, inflated, codec>>

\* main in inflate mode, with no run in progress
Inflate ==
    /\ pc = "idle"
    /\ count.runs > 0
    /\ inflated = NoInflate
    /\ inflated' = inflateDirectory(fs)
    /\ UNCHANGED <<tree, fs, rw, run, pc, ends, hist, count, codec>>

\* between a run that saved resume.path and the next run, the file that
\* resume.path names is deleted from the source tree
TreeChange ==
    /\ pc = "idle"
    /\ fs.resume.exists
    /\ fs.resume.data \in tree
    /\ count.muts < MaxTreeChanges
    /\ tree' = tree \ {fs.resume.data}
    /\ count' = [count EXCEPT !.muts = @ + 1]
    /\ UNCHANGED <<fs, rw, run, pc, ends, hist, inflated, codec>>

Next ==
    \/ \E numFiles \in 0..MaxNumFiles, resume \in BOOLEAN : StartRun(numFiles, resume)
    \/ WalkStep
    \/ Finish
    \/ Inflate
    \/ TreeChange

Spec == Init /\ [][Next]_vars

(***************************************************************************)
(* The writer on its own: WritePath is called with any sequence of         *)
(* distinct paths, then Close, then the segments are inflated.             *)
(***************************************************************************)
WriterPaths ==
    {<<Sep, "f">>,
     <<Sep, "g">>,
     <<Sep, "a", Sep, "f">>,
     <<Sep, "a", Sep, "-", "g">>,
     <<Sep, "a", Sep, "e", Sep, "f">>,
     <<Sep>> \o LongName \o <<Sep, "f">>}

InitWriter ==
    /\ tree = {}
    /\ \E maxFiles \in 0..MaxNumFiles :
         \E w \in {NewRotatingWriter([EmptyDir EXCEPT !.exists = FALSE], maxFiles, 1)} :
             /\ fs = w.fs
             /\ rw = w.rw
             /\ run = [NoRun EXCEPT !.numFiles = maxFiles, !.startFileNum = 1]
    /\ pc = "writing"
    /\ ends = <<>>
    /\ hist = <<>>
    /\ inflated = NoInflate
    /\ count = NoCount
    /\ codec = NoCodec

\* one call of WritePath; the caller stops at the first error, or calls
\* once more after a failure to seal, when the handle of the current file
\* is closed
WriterWrite(path) ==
    /\ pc = "writing"
    /\ run.err \in {"nil", "compress"}
    /\ Len(hist) < MaxWrites
    /\ \A i \in 1..Len(hist) : hist[i].path # path
    /\ \E cmp \in Cmp :
         \E x \in {WritePath(rw, fs, path, cmp)} :
             /\ rw' = x.rw
             /\ fs' = x.fs
             /\ count' = [count EXCEPT !.fails = @ + Failed(x.err)]
             /\ run' = IF x.err = "nil" THEN run
                       ELSE [run EXCEPT !.err = x.err, !.errPath = path,
                                        !.failedCmp = cmp,
                                        !.refusedAfter = rw.lastWrittenPath]
             /\ hist' = IF x.err = "nil"
                        THEN Append(hist, Written(path, rw, x.rw, 1))
                        ELSE hist
    /\ UNCHANGED <<tree, pc, ends, inflated, codec>>

WriterClose ==
    /\ pc = "writing"
    /\ \E cmp \in Cmp :
         \E c \in {Close(rw, fs, cmp)} :
             /\ fs' = c.fs
             /\ rw' = c.rw
             /\ count' = [count EXCEPT !.fails = @ + Failed(c.err)]
             /\ ends' = Append(ends,
                               EndOfRun(run,
                                        IF run.err = "ErrMaxFilesReached" THEN "maxfiles"
                                        ELSE IF run.err # "nil" THEN "error"
                                        ELSE "completed",
                                        c.err))
    /\ pc' = "closed"
    /\ UNCHANGED <<tree, run, hist, inflated, codec>>

WriterInflate ==
    /\ pc = "closed"
    /\ inflated = NoInflate
    /\ inflated' = inflateDirectory(fs)
    /\ UNCHANGED <<tree, fs, rw, run, pc, ends, hist, count, codec>>

NextWriter ==
    \/ \E path \in WriterPaths : WriterWrite(path)
    \/ WriterClose
    \/ WriterInflate

SpecWriter == InitWriter /\ [][NextWriter]_vars

(***************************************************************************)
(* A run that is stopped by the limit and the resume requests that follow   *)
(* it, on a source tree that does not change and without I/O failure.       *)
(***************************************************************************)
MaxResumes == 2

InitResume ==
    /\ Init
    /\ fs = EmptyDir

\* the first run has a limit; every later run is started with --resume
StartResume(numFiles) ==
    /\ count.runs <= MaxResumes
    /\ IF count.runs = 0 THEN numFiles > 0 /\ BeginRun(numFiles, FALSE)
       ELSE BeginRun(numFiles, TRUE)

WalkStepOk ==
    /\ count.fails = 0
    /\ WalkStep
    /\ count'.fails = 0

FinishOk ==
    /\ count.fails = 0
    /\ Finish
    /\ count'.fails = 0

NextResume ==
    \/ \E numFiles \in 0..MaxNumFiles : StartResume(numFiles)
    \/ WalkStepOk
    \/ FinishOk

SpecResume == InitResume /\ [][NextResume]_vars

(***************************************************************************)
(* A writer run and inflations of its output directory, interleaved.       *)
(* compressFile is not one step of the file system: between os.Create of   *)
(* the artifact and the close of the gzip stream the artifact is in the    *)
(* directory, incomplete. No I/O fails here.                               *)
(***************************************************************************)
\* compressFile after os.Create(gzPath), before the gzip stream is closed
compressFileBegun(d, n) ==
    [d EXCEPT !.gz = Put(d.gz, n, [lines |-> <<>>, complete |-> FALSE])]

InitConc ==
    /\ tree = {}
    /\ \E w \in {NewRotatingWriter([EmptyDir EXCEPT !.exists = FALSE], 0, 1)} :
         /\ fs = w.fs
         /\ rw = w.rw
    /\ run = [NoRun EXCEPT !.startFileNum = 1]
    /\ pc = "cwriting"
    /\ ends = <<>>
    /\ hist = <<>>
    /\ inflated = NoInflate
    /\ count = NoCount
    /\ codec = NoCodec

\* a call of WritePath: the whole call when it does not rotate, else the
\* call up to the middle of compressFile
ConcWrite(path) ==
    /\ pc = "cwriting"
    /\ Len(hist) < MaxWrites
    /\ \A i \in 1..Len(hist) : hist[i].path # path
    /\ IF NeedRotate(rw.currentSize, Len(calculateDeltaPath(rw.lastWrittenPath, path)) + 1)
       THEN /\ fs' = compressFileBegun(fs, rw.currentFilePath)
            /\ run' = [run EXCEPT !.currentPath = path]
            /\ pc' = "sealing"
            /\ UNCHANGED <<rw, hist>>
       ELSE /\ \E x \in {WritePath(rw, fs, path, "ok")} :
                 /\ rw' = x.rw
                 /\ fs' = x.fs
                 /\ hist' = Append(hist, Written(path, rw, x.rw, 1))
            /\ UNCHANGED <<run, pc>>
    /\ UNCHANGED <<tree, ends, inflated, count, codec>>

\* the rest of that call: compressFile completes the artifact and removes
\* the plaintext, rotate creates the next file, the line is written
ConcSealed ==
    /\ pc = "sealing"
    /\ \E x \in {WritePath(rw, fs, run.currentPath, "ok")} :
         /\ rw' = x.rw
         /\ fs' = x.fs
         /\ hist' = Append(hist, Written(run.currentPath, rw, x.rw, 1))
    /\ pc' = "cwriting"
    /\ UNCHANGED <<tree, run, ends, inflated, count, codec>>

\* Close up to the middle of compressFile
ConcClose ==
    /\ pc = "cwriting"
    /\ fs' = compressFileBegun(fs, rw.currentFilePath)
    /\ pc' = "closing"
    /\ UNCHANGED <<tree, rw, run, ends, hist, inflated, count, codec>>

\* the rest of Close
ConcClosed ==
    /\ pc = "closing"
    /\ \E c \in {Close(rw, fs, "ok")} :
         /\ fs' = c.fs
         /\ rw' = c.rw
         /\ ends' = Append(ends, EndOfRun(run, "completed", c.err))
    /\ pc' = "cdone"
    /\ UNCHANGED <<tree, run, hist, inflated, count, codec>>

\* another process runs inflateDirectory on the directory as it is
ConcInflate ==
    /\ inflated' = inflateDirectory(fs)
    /\ inflated' # inflated
    /\ UNCHANGED <<tree, fs, rw, run, pc, ends, hist, count, codec>>

NextConc ==
    \/ \E path \in WriterPaths : ConcWrite(path)
    \/ ConcSealed
    \/ ConcClose
    \/ ConcClosed
    \/ ConcInflate

SpecConc == InitConc /\ [][NextConc]_vars

(***************************************************************************)
(* The functions on their own: the codec on a pair of paths, and           *)
(* findLastFileNumber on a directory listing.                              *)
(***************************************************************************)
DirNames == {<<"a">>, <<"b">>, <<"-", "d">>}

FileNames == {<<"f">>, <<"-", "g">>}

\* the sequences of at most n directory names
RECURSIVE DirChains(_)
DirChains(n) ==
    IF n = 0 THEN {<<>>}
    ELSE DirChains(n - 1)
         \cup {Append(c, d) : c \in {x \in DirChains(n - 1) : Len(x) = n - 1},
                              d \in DirNames}

\* the absolute paths of files at most MaxDepth directories deep
CodecPaths ==
    {<<Sep>> \o JoinStr(Append(c, f), Sep) : c \in DirChains(MaxDepth), f \in FileNames}

\* the segment numbers and the other names a directory listing is made of
ListedNumbers == {1, 2, 10}

StrayNames ==
    {<<"n", "o", "t", "e", "s", ".", "l", "o", "g">>,
     <<"o", "u", "t", ".", "x", ".", "l", "o", "g">>,
     <<"o", "u", "t", ".", "7", ".", "t", "x", "t">>,
     <<"o", "u", "t", ".", "7", ".", "l", "o", "g", ".", "o", "l", "d", ".", "l", "o", "g">>}

Listings ==
    {[EmptyDir EXCEPT !.exists = FALSE]}
    \cup {[EmptyDir EXCEPT !.plain = [n \in p |-> <<>>],
                           !.gz = [n \in g |-> [lines |-> <<>>, complete |-> TRUE]],
                           !.stray = s] :
            p \in SUBSET ListedNumbers, g \in SUBSET ListedNumbers, s \in SUBSET StrayNames}

InitPure ==
    /\ tree = {}
    /\ rw = NoWriter
    /\ run = NoRun
    /\ pc = "pure"
    /\ ends = <<>>
    /\ hist = <<>>
    /\ inflated = NoInflate
    /\ count = NoCount
    /\ \/ /\ fs = EmptyDir
          /\ \E prev \in CodecPaths \cup {<<>>}, cur \in CodecPaths :
               codec = [NoCodec EXCEPT !.pc = "paths", !.prev = prev, !.cur = cur]
       \/ /\ fs \in Listings
          /\ codec = [NoCodec EXCEPT !.pc = "listing"]

Encode ==
    /\ codec.pc = "paths"
    /\ codec' = [codec EXCEPT !.pc = "encoded",
                              !.tok = calculateDeltaPath(codec.prev, codec.cur)]
    /\ UNCHANGED <<tree, fs, rw, run, pc, ends, hist, inflated, count>>

Decode ==
    /\ codec.pc = "encoded"
    /\ codec' = [codec EXCEPT !.pc = "decoded",
                              !.out = reconstructPath(codec.prev, codec.tok)]
    /\ UNCHANGED <<tree, fs, rw, run, pc, ends, hist, inflated, count>>

\* main computes the number of the first file of the run
FindLast ==
    /\ codec.pc = "listing"
    /\ codec' = [codec EXCEPT !.pc = "found",
                              !.startFileNum = StartFileNum(findLastFileNumber(fs))]
    /\ UNCHANGED <<tree, fs, rw, run, pc, ends, hist, inflated, count>>

\* the lines a segment may hold: deltas of 0 to MaxLevels levels, and lines
\* that begin with '-' without being a delta
MaxLevels == 4

Suffixes == {<<"x">>, <<>>}

AscendToken(n, suffix) == <<"-">> \o Itoa(n) \o <<":">> \o suffix

AscendTokens == {AscendToken(n, suffix) : n \in 0..MaxLevels, suffix \in Suffixes}

MalformedTokens ==
    {<<"-">>, <<"-", "x">>, <<"-", "1">>, <<"-", "1", "x">>,
     <<"-", ":", "x">>, <<"-", "a", ":", "x">>, <<"-", "1", "a", ":", "x">>,
     <<"-", "-", "1", ":", "x">>, <<"-", "+", "1", ":", "x">>}

\* reconstructPath on a line read from a segment, with prior state prev
DecodeToken ==
    /\ codec.pc = "paths"
    /\ \E tok \in AscendTokens \cup MalformedTokens :
          codec' = [codec EXCEPT !.pc = "parsed", !.tok = tok,
                                 !.out = reconstructPath(codec.prev, tok)]
    /\ UNCHANGED <<tree, fs, rw, run, pc, ends, hist, inflated, count>>

\* the orders a listing may give the files in
Perms(S) ==
    {f \in [1..Cardinality(S) -> S] : \A i, j \in DOMAIN f : i # j => f[i] # f[j]}

\* inflateDirectory on a directory whose listing gives the compressed files
\* in any order
InflateListing ==
    /\ codec.pc = "listing"
    /\ \E files \in Perms(GzNumbers(fs)) :
          /\ codec' = [codec EXCEPT !.pc = "inflated", !.listing = files]
          /\ inflated' = IF fs.exists THEN InflateListed(files, fs)
                         ELSE inflateDirectory(fs)
    /\ UNCHANGED <<tree, fs, rw, run, pc, ends, hist, count>>

NextPure == Encode \/ Decode \/ DecodeToken \/ FindLast \/ InflateListing

SpecPure == InitPure /\ [][NextPure]_vars

(***************************************************************************)
(* Properties                                                              *)
(***************************************************************************)
Last == ends[Len(ends)]

\* the paths written so far, in order
WrittenPaths == [i \in 1..Len(hist) |-> hist[i].path]

\* the lines written to segment n, in order
RECURSIVE LinesOf(_, _)
LinesOf(h, n) ==
    IF Len(h) = 0 THEN <<>>
    ELSE IF h[1].seg = n THEN <<h[1].line>> \o LinesOf(Tail(h), n)
    ELSE LinesOf(Tail(h), n)

SegLines(n) == LinesOf(hist, n)

\* the plaintext size of a sequence of lines, each with its newline
RECURSIVE Size(_)
Size(lines) == IF Len(lines) = 0 THEN 0 ELSE Len(lines[1]) + 1 + Size(Tail(lines))

\* the segments of the directory, and the content of one: its plaintext
\* while that exists, its compressed artifact afterwards
Segments == (DOMAIN fs.plain) \cup (DOMAIN fs.gz)

SegContent(n) == IF n \in DOMAIN fs.plain THEN fs.plain[n] ELSE fs.gz[n].lines

\* segment n is sealed: it is not the file the writer has open
Sealed(n) == n # rw.currentFile \/ rw.closed

\* the paths walkDirectory passes to WritePath when nothing is skipped and
\* no write is refused: each file whose directory differs from lastDir
RECURSIVE UnboundedRun(_, _)
UnboundedRun(walk, lastDir) ==
    IF Len(walk) = 0 THEN <<>>
    ELSE IF ~walk[1].isDir /\ Dir(walk[1].path) # lastDir
    THEN <<walk[1].path>> \o UnboundedRun(Tail(walk), Dir(walk[1].path))
    ELSE UnboundedRun(Tail(walk), lastDir)

\* every line written so far fits a segment
LinesFit == \A i \in 1..Len(hist) : Len(hist[i].line) + 1 <= maxFileSize

\* C1 (SpecWriter): when every WritePath call and Close succeeded, inflating
\* the segments in number order yields exactly the sequence of paths that
\* was written. (Stated for lines that fit a segment.)
C1_PipelineRoundTrip ==
    (inflated # NoInflate /\ run.err = "nil" /\ Last.closeErr = "nil" /\ LinesFit)
        => (inflated.err = "nil" /\ inflated.out = WrittenPaths)

\* C2 (SpecPure): decoding, with prior state a, the line that encodes b
\* against a returns exactly b.
C2_CodecRoundTrip ==
    (codec.pc = "decoded" /\ codec.prev # <<>>) => codec.out = Decoded(codec.cur)

\* run e was stopped by the limit after it wrote a path, and the path it
\* was refused is shorter than a segment
StoppedByLimit(e) ==
    /\ e.outcome = "maxfiles"
    /\ e.refusedAfter # <<>>
    /\ Len(e.lastPath) + 1 <= maxFileSize

\* C3 (Spec): a run with a budget of K segments that ends with the budget
\* exhausted, followed over the unmodified tree by a resumed run that
\* completes, leaves segments that inflate to the path sequence of a single
\* unbounded run. (Stated for runs whose lines all fit a segment.)
C3_ResumeIdempotence ==
    (/\ pc = "idle"
     /\ Len(ends) = 2
     /\ LinesFit
     /\ StoppedByLimit(ends[1]) /\ ends[1].closeErr = "nil"
     /\ ends[2].resume /\ ends[2].outcome = "completed" /\ ends[2].closeErr = "nil"
     /\ count.muts = 0 /\ count.fails = 0
     /\ inflated # NoInflate)
        => (inflated.err = "nil" /\ inflated.out = UnboundedRun(WalkDir(tree), <<>>))

\* C4 (Spec): the path carried by the budget-exhausted signal is the last
\* path written before the refused call. (Stated for runs that wrote a
\* path before the refusal.)
C4_CarriedPathIsLastWritten ==
    \A i \in 1..Len(ends) :
        StoppedByLimit(ends[i]) => ends[i].lastPath = ends[i].refusedAfter

\* C5 (Spec): a resumed run whose checkpoint path does not occur in the
\* traversal does not end as a successful run.
C5_MismatchFails ==
    (/\ pc = "idle"
     /\ Len(ends) = 2
     /\ StoppedByLimit(ends[1])
     /\ run.resume
     /\ Last.outcome \notin {"exit_resume", "exit_writer"}
     /\ \A i \in 1..Len(run.walk) : run.walk[i].path # run.resumePath)
        => Last.outcome # "completed"

\* C6 (Spec): after a run stopped by the limit --numFiles K, a run with the
\* same K and --resume gets its writer created and goes on.
C6_ResumeSameLimitContinues ==
    \A i \in 2..Len(ends) :
        (/\ StoppedByLimit(ends[i - 1])
         /\ ends[i].resume
         /\ ends[i].numFiles = ends[i - 1].numFiles)
            => ends[i].outcome # "exit_writer"

\* C7 (SpecPure): the first segment number of a run is one more than the
\* highest number among the out.N.log and out.N.log.gz files of the
\* directory, 1 if there is none or no directory; other entries are ignored.
C7_NextSegmentNumber ==
    codec.pc = "found"
        => codec.startFileNum = (IF fs.exists THEN SetMax(Segments) + 1 ELSE 1)

\* C8 (Spec): when compressFile fails while a segment is sealed, the call
\* fails, the plaintext of the segment stays as written, no further segment
\* is created, and nothing compresses the segment later in the run: the
\* artifact is the one the failed attempt left and Close fails without
\* compressing. A plaintext is gone only when its complete artifact exists.
C8_SealFailure ==
    /\ \A n \in Segments :
          n \notin DOMAIN fs.plain
              => (fs.gz[n].complete /\ fs.gz[n].lines = SegLines(n))
    /\ run.err = "failed to write path"
          => /\ rw.currentFilePath \in DOMAIN fs.plain
             /\ fs.plain[rw.currentFilePath] = SegLines(rw.currentFilePath)
             /\ rw.fileNumber = rw.currentFilePath + 1
             /\ rw.fileNumber \notin Segments
             /\ (rw.currentFilePath \in DOMAIN fs.gz) = (run.failedCmp # "nogz")
             /\ rw.currentFilePath \in DOMAIN fs.gz
                   => fs.gz[rw.currentFilePath].complete = (run.failedCmp = "noremove")
             /\ pc = "idle" => Last.closeErr = "close"
    /\ (pc = "idle" /\ Len(ends) > 0 /\ Last.closeErr = "compress")
          => /\ rw.currentFilePath \in DOMAIN fs.plain
             /\ fs.plain[rw.currentFilePath] = SegLines(rw.currentFilePath)

\* a seal failed in rotate, the run has ended, the plaintext is still there
C8_Witness ==
    /\ pc = "idle"
    /\ run.err = "failed to write path"
    /\ run.failedCmp = "partial"
    /\ Len(fs.plain[rw.currentFilePath]) > 0

\* C9 (Spec): after a run whose Close succeeded, every segment the run
\* created is a complete compressed artifact holding its lines, and none is
\* left as plaintext.
C9_AllSealedAfterClose ==
    (/\ pc = "idle"
     /\ Len(ends) > 0
     /\ Last.outcome \in {"completed", "maxfiles", "error"}
     /\ Last.closeErr = "nil")
        => \A n \in run.startFileNum..(rw.fileNumber - 1) :
              /\ n \notin DOMAIN fs.plain
              /\ n \in DOMAIN fs.gz
              /\ fs.gz[n].complete
              /\ fs.gz[n].lines = SegLines(n)

\* a run stopped by the limit after two segments, the last one under the
\* size bound, and Close succeeded
C9_Witness ==
    /\ pc = "idle"
    /\ Len(ends) > 0
    /\ Last.outcome = "maxfiles"
    /\ Last.closeErr = "nil"
    /\ rw.fileNumber - run.startFileNum = 2
    /\ rw.currentSize > 0
    /\ rw.currentSize < maxFileSize

\* C10 (SpecWriter): every line is, whole, in the one segment that was
\* current when it was written, and a sealed segment is no larger than
\* maxFileSize unless it holds a single line, the one whose write made the
\* writer rotate: it exceeds maxFileSize by less than that line's length.
C10_RotationBoundary ==
    /\ \A n \in Segments :
          (n \in DOMAIN fs.plain \/ fs.gz[n].complete) => SegContent(n) = SegLines(n)
    /\ \A i \in 1..Len(hist) : hist[i].seg \in Segments
    /\ \A n \in Segments :
          Sealed(n) =>
              \/ Size(SegLines(n)) <= maxFileSize
              \/ Len(SegLines(n)) = 1

\* a sealed segment of two lines, and a sealed segment over the bound
C10_Witness ==
    /\ \E n \in Segments : Sealed(n) /\ Len(SegLines(n)) = 2
    /\ \E n \in Segments : Sealed(n) /\ Size(SegLines(n)) > maxFileSize

\* C11 (SpecWriter): while a segment is open its plaintext size, which the
\* writer counts in currentSize, is at most maxFileSize, whatever paths
\* were written.
C11_ActiveSizeBounded ==
    (rw.currentFile # 0 /\ ~rw.closed)
        => /\ rw.currentSize = Size(fs.plain[rw.currentFile])
           /\ rw.currentSize <= maxFileSize

\* C12 (SpecPure): inflateDirectory opens the compressed files in strictly
\* ascending order of their numbers, each of them once, whatever the order
\* of the listing.
C12_AscendingOrder ==
    codec.pc = "inflated"
        => /\ \A i, j \in 1..Len(inflated.order) :
                 i < j => inflated.order[i] < inflated.order[j]
           /\ inflated.err = "nil"
                 => {inflated.order[i] : i \in 1..Len(inflated.order)} = DOMAIN fs.gz

\* the listing in the order of the names, out.10.log.gz before out.2.log.gz,
\* and the files opened as 1, 2, 10
C12_Witness ==
    /\ codec.pc = "inflated"
    /\ codec.listing = <<1, 10, 2>>
    /\ codec.listing = ListFiles(DOMAIN fs.gz)
    /\ inflated.order = <<1, 2, 10>>

\* the errors of reconstructPath
DecodeErrors == {"format", "levels", "depth", "panic"}

\* the number, within its segment, of the k-th line written
LineInSegment(k) == Cardinality({j \in 1..k : hist[j].seg = hist[k].seg})

DirComponents(path) == Len(Comps(Dir(path)))

\* C14 (SpecPure): decoding -N:suffix with a prior path fails with the
\* depth error exactly when N is greater than the number of components of
\* the prior path's directory.
C14_DepthUnderflow ==
    (codec.pc = "parsed" /\ codec.prev # <<>>)
        => \A n \in 0..MaxLevels, suffix \in Suffixes :
              codec.tok = AscendToken(n, suffix)
                  => ((codec.out.err = "depth") <=> (n > DirComponents(codec.prev)))

\* C15 (SpecPure): decoding, with a prior path, a line that begins with '-'
\* and is not -<decimal levels>:<suffix> returns the format error or the
\* levels error, and no path.
C15_MalformedDelta ==
    (codec.pc = "parsed" /\ codec.prev # <<>> /\ codec.tok \in MalformedTokens)
        => codec.out.err \in {"format", "levels"}

\* C16 (Spec): the first line a run's writer writes is the full path,
\* verbatim.
C16_FirstIsLiteral ==
    \A i \in 1..Len(hist) :
        (i = 1 \/ hist[i - 1].run # hist[i].run) => hist[i].line = hist[i].path

\* a run wrote a full path and then a delta, and the run after it wrote
\* its first line
C16_Witness ==
    /\ Len(hist) >= 3
    /\ hist[1].run = 1 /\ hist[2].run = 1
    /\ hist[2].line # hist[2].path
    /\ hist[Len(hist)].run = 2

\* the paths written by run r, in order
RECURSIVE RunPaths(_, _)
RunPaths(h, r) ==
    IF Len(h) = 0 THEN <<>>
    ELSE IF h[1].run = r THEN <<h[1].path>> \o RunPaths(Tail(h), r)
    ELSE RunPaths(Tail(h), r)

\* the position of path p among the entries of a walk, 0 when it is absent
Position(walk, p) ==
    IF \E i \in 1..Len(walk) : walk[i].path = p
    THEN CHOOSE i \in 1..Len(walk) : walk[i].path = p
    ELSE 0

\* the entries of a walk after the one equal to p; none when p is absent
AfterCheckpoint(walk, p) ==
    IF Position(walk, p) = 0 THEN <<>>
    ELSE SubSeq(walk, Position(walk, p) + 1, Len(walk))

IsPrefix(s, t) == Len(s) <= Len(t) /\ s = SubSeq(t, 1, Len(s))

\* C17 (Spec): a resumed run passes nothing to the writer up to and
\* including the entry equal to the checkpoint, and after it passes every
\* file whose directory differs from the directory of the path it passed
\* last; when the run completes it has written all of them.
C17_SkipThroughCheckpoint ==
    (run.resume /\ Len(run.walk) > 0)
        => LET want == UnboundedRun(AfterCheckpoint(run.walk, run.resumePath), <<>>)
               got == RunPaths(hist, count.runs)
           IN  /\ IsPrefix(got, want)
               /\ \A i \in 1..Len(got) :
                     /\ got[i] # run.resumePath
                     /\ Position(run.walk, got[i]) > Position(run.walk, run.resumePath)
               /\ (pc = "idle" /\ Last.outcome = "completed") => got = want

\* a resumed run skipped to a checkpoint that is not the first file,
\* wrote what follows it, and completed
C17_Witness ==
    /\ pc = "idle"
    /\ run.resume
    /\ Last.outcome = "completed"
    /\ Len(RunPaths(hist, count.runs)) >= 1
    /\ Position(run.walk, run.resumePath) > 0
    /\ \E i \in 1..(Position(run.walk, run.resumePath) - 1) : ~run.walk[i].isDir

\* C18 (Spec): resume.path is written by a run exactly when the run ends
\* because the limit of files was reached, and it then holds the path the
\* writer wrote last; a first run that ends otherwise leaves no resume.path.
C18_CheckpointWritten ==
    (pc = "idle" /\ Len(ends) > 0)
        => /\ StoppedByLimit(Last)
                 => (fs.resume.exists /\ fs.resume.data = Last.refusedAfter)
           /\ (Len(ends) = 1 /\ Last.outcome # "maxfiles") => ~fs.resume.exists

\* C19 (Spec): a run with --resume skips to the path resume.path holds,
\* and when there is no resume.path it does not fail: it walks from the
\* beginning.
C19_ResumeWithoutCheckpoint ==
    /\ (pc = "walking" /\ run.resume) => run.resumePath = fs.resume.data
    /\ \A i \in 1..Len(ends) : ends[i].outcome # "exit_resume"

\* the number of lines the segments of S hold
RECURSIVE TotalLines(_)
TotalLines(S) ==
    IF S = {} THEN 0
    ELSE LET n == CHOOSE x \in S : TRUE
         IN  Len(SegContent(n)) + TotalLines(S \ {n})

\* C20 (SpecWriter): inflateDirectory reads every segment of the
\* directory, those that are still plaintext as well as the compressed
\* ones: unless it stops on an error of a segment, it has written one path
\* for each line of each segment.
C20_PlaintextInflated ==
    (inflated # NoInflate /\ inflated.err \in {"nil", "nofiles"})
        => Len(inflated.out) = TotalLines(Segments)

\* C21 (Spec): a run passes to the writer at most one path of each
\* directory, and a fresh run without limit that completes has passed one
\* for every directory that holds a file.
C21_OnePathPerDirectory ==
    /\ \A i, j \in 1..Len(hist) :
          (i < j /\ hist[i].run = hist[j].run)
              => Dir(hist[i].path) # Dir(hist[j].path)
    /\ (pc = "idle" /\ Len(ends) = 1 /\ Last.outcome = "completed" /\ ~Last.resume)
          => {Dir(hist[i].path) : i \in 1..Len(hist)} = {Dir(p) : p \in tree}

\* the compressed artifacts that are complete
SealedGz == {n \in DOMAIN fs.gz : fs.gz[n].complete}

\* C22 (SpecConc): an inflation that runs while a writer works on the same
\* directory, which holds sealed segments, opens only artifacts that are
\* complete and gives what inflating those artifacts alone gives.
C22_ConcurrentInflate ==
    [][(inflated' # inflated /\ SealedGz # {})
          => /\ \A i \in 1..Len(inflated'.order) : inflated'.order[i] \in SealedGz
             /\ inflated' = InflateListed(ListFiles(SealedGz), fs)]_vars


\* C23 (Spec): as long as no I/O has failed, the segment numbers present
\* are 1..m, and a step that creates a segment gives it the number after
\* the highest one present, in the first run and in the later ones.
C23_GapFreeNumbering ==
    [][count'.fails = 0
          => /\ Segments' = 1..Cardinality(Segments')
             /\ \A n \in (DOMAIN fs'.plain) \ (DOMAIN fs.plain) :
                   n = SetMax(Segments) + 1]_vars

C23_Witness ==
    /\ count.runs = 2
    /\ count.fails = 0
    /\ Len(ends) = 1
    /\ ends[1].outcome = "maxfiles"
    /\ run.resume
    /\ run.startFileNum = 2
    /\ Segments = 1..3


\* the path the writer had written last when it wrote the k-th path
PrevOf(k) ==
    IF k > 1 /\ hist[k - 1].run = hist[k].run THEN hist[k - 1].path ELSE <<>>

\* the line the k-th written path has in its segment
FileLine(k) == SegContent(hist[k].seg)[LineInSegment(k)]

\* C24 (Spec): the line WritePath writes for a path is calculateDeltaPath of
\* the writer's last written path and that path, whatever the segment, its
\* size and the run: two writes of the same pair give the same line.
C24_EncodePure ==
    /\ \A k \in 1..Len(hist) :
          /\ hist[k].seg \in Segments
          /\ LineInSegment(k) <= Len(SegContent(hist[k].seg))
          /\ FileLine(k) = calculateDeltaPath(PrevOf(k), hist[k].path)
    /\ \A i, j \in 1..Len(hist) :
          (PrevOf(i) = PrevOf(j) /\ hist[i].path = hist[j].path)
              => FileLine(i) = FileLine(j)

\* the same pair written twice, by two runs, in two segments
C24_Witness ==
    \E i, j \in 1..Len(hist) :
        /\ i < j
        /\ PrevOf(i) # <<>>
        /\ PrevOf(i) = PrevOf(j)
        /\ hist[i].path = hist[j].path
        /\ hist[i].run # hist[j].run
        /\ hist[i].seg # hist[j].seg


\* C25 (Spec): inflation returns unchanged every path that was written in
\* full, the first path of a later run as well as the first path of the
\* first run. (Stated for runs without I/O failure whose lines all fit a
\* segment, and an inflation that read every line without error.)
C25_LiteralUnchanged ==
    (/\ pc = "idle"
     /\ count.fails = 0
     /\ LinesFit
     /\ inflated.err = "nil"
     /\ Len(inflated.out) = Len(hist))
        => \A k \in 1..Len(hist) :
              PrevOf(k) = <<>> => inflated.out[k] = hist[k].path


\* the lines of the compressed files in the sequence order, one after another
RECURSIVE LinesInOrder(_)
LinesInOrder(order) ==
    IF Len(order) = 0 THEN <<>>
    ELSE fs.gz[order[1]].lines \o LinesInOrder(Tail(order))

\* C26 (SpecWriter): every path inflateDirectory prints is reconstructPath of
\* the path printed before it and the next line of the files in the order
\* they are opened, the first path being decoded with no last path: the
\* first line of a file is decoded with the last path of the file before.
C26_LastPathCarried ==
    /\ Len(inflated.out) <= Len(LinesInOrder(inflated.order))
    /\ \A k \in 1..Len(inflated.out) :
          inflated.out[k] =
              reconstructPath(IF k = 1 THEN <<>> ELSE inflated.out[k - 1],
                              LinesInOrder(inflated.order)[k]).path

\* the first line of the second file opened is a delta that was decoded
C26_Witness ==
    /\ Len(inflated.order) >= 2
    /\ \E k \in 2..Len(inflated.out) :
          /\ k = Len(fs.gz[inflated.order[1]].lines) + 1
          /\ LinesInOrder(inflated.order)[k] # inflated.out[k]
          /\ inflated.out[k] = hist[k].path


\* C27 (SpecPure): after a path prev, the line for a path cur is made of
\* levels = names of prev's directory less the common leading names of the
\* two directories, and suffix = the other names of cur's directory and its
\* file name: the bare suffix when levels is 0, -levels:suffix otherwise.
C27_EncodeLevels ==
    (codec.pc = "encoded" /\ codec.prev # <<>>)
        => LET prevDir == Comps(Dir(codec.prev))
               curDir == Comps(Dir(codec.cur))
               common == CommonLen(prevDir, curDir)
               levels == Len(prevDir) - common
               suffix == JoinStr(SubSeq(curDir, common + 1, Len(curDir))
                                 \o <<Base(codec.cur)>>, Sep)
           IN  codec.tok = IF levels = 0 THEN suffix ELSE AscendToken(levels, suffix)


\* C28 (SpecPure): after an absolute path prev, a line -n:suffix with n at
\* most the number of names of prev's directory is decoded to that directory
\* without its last n names, followed by the suffix if there is one, and the
\* result is absolute; with n = 0 it is prev's directory joined with the
\* suffix.
C28_DecodeAscend ==
    \A n \in 0..MaxLevels, suffix \in Suffixes :
        (/\ codec.pc = "parsed"
         /\ codec.prev # <<>>
         /\ codec.tok = AscendToken(n, suffix)
         /\ n <= DirComponents(codec.prev))
            => LET names == Comps(Dir(codec.prev))
                   kept == SubSeq(names, 1, Len(names) - n)
               IN  /\ codec.out.err = "none"
                   /\ codec.out.path
                         = <<Sep>> \o JoinStr(kept \o (IF suffix = <<>> THEN <<>>
                                                       ELSE <<suffix>>), Sep)
                   /\ codec.out.path[1] = Sep


\* C29 (SpecWriter): a call of WritePath that is refused because the maximum
\* number of files is reached changes neither the writer (current file and
\* its size, file number, total of bytes, last written path) nor the files:
\* nothing is written and the current file is not sealed.
C29_RefusedWriteChangesNothing ==
    [][(run.err = "nil" /\ run'.err = "ErrMaxFilesReached")
          => (rw' = rw /\ fs' = fs /\ hist' = hist)]_vars

\* a write was refused after the current file had received lines, and the
\* file is still open and plain
C29_Witness ==
    /\ pc = "writing"
    /\ run.err = "ErrMaxFilesReached"
    /\ run.refusedAfter = rw.lastWrittenPath
    /\ rw.currentSize > 0
    /\ ~rw.closed
    /\ rw.currentFile \in DOMAIN fs.plain
    /\ rw.currentFile \notin DOMAIN fs.gz
    /\ Len(fs.plain[rw.currentFile]) > 0


\* the segments the current run has created
CreatedByRun == Segments \ run.present

\* C30 (Spec): a run with a maximum K > 0 creates at most K segments; on an
\* output directory without segments it is refused only by a write that
\* needs a segment after the K-th; a run without maximum is never refused.
C30_SegmentBudget ==
    /\ (pc = "walking" /\ run.numFiles > 0)
          => Cardinality(CreatedByRun) <= run.numFiles
    /\ (pc = "walking" /\ run.err = "MaxFilesError" /\ run.present = {})
          => /\ Cardinality(CreatedByRun) = run.numFiles
             /\ rw.currentFile = run.numFiles
             /\ NeedRotate(rw.currentSize,
                           Len(calculateDeltaPath(rw.lastWrittenPath, run.currentPath)) + 1)
    /\ \A i \in 1..Len(ends) :
          /\ ends[i].numFiles = 0 => ends[i].outcome \notin {"maxfiles", "exit_writer"}
          /\ (i = 1 /\ ends[i].numFiles > 0) => ends[i].outcome # "exit_writer"
    /\ run.numFiles = 0 => run.err # "MaxFilesError"

\* a run with a maximum was refused, and a later run without maximum has
\* rotated twice and completed
C30_Witness ==
    /\ pc = "idle"
    /\ count.fails = 0
    /\ Len(ends) = 2
    /\ ends[1].numFiles > 0
    /\ ends[1].outcome = "maxfiles"
    /\ ends[2].numFiles = 0
    /\ ends[2].outcome = "completed"
    /\ rw.fileNumber - run.startFileNum >= 3


\* C31 (Spec): a segment is created empty, receives lines only while it is
\* the open file of the writer, loses its plaintext only in the step that
\* leaves a complete compressed file holding the same lines, and its
\* compressed file is never changed afterwards, by this run or a later one.
C31_SegmentLifecycle ==
    [][/\ \A n \in Segments' \ Segments :
             /\ n \in DOMAIN fs'.plain
             /\ n \notin DOMAIN fs'.gz
             /\ Len(fs'.plain[n]) <= 1
       /\ \A n \in (DOMAIN fs.plain) \cap (DOMAIN fs'.plain) :
             \/ fs'.plain[n] = fs.plain[n]
             \/ /\ ~Sealed(n)
                /\ n \notin DOMAIN fs.gz
                /\ n = rw'.currentFile
                /\ Len(fs'.plain[n]) = Len(fs.plain[n]) + 1
                /\ IsPrefix(fs.plain[n], fs'.plain[n])
       /\ \A n \in (DOMAIN fs.plain) \ (DOMAIN fs'.plain) :
             /\ n \in DOMAIN fs'.gz
             /\ fs'.gz[n] = [lines |-> fs.plain[n], complete |-> TRUE]
       /\ \A n \in DOMAIN fs.gz :
             /\ n \in DOMAIN fs'.gz
             /\ fs'.gz[n] = fs.gz[n]]_vars

\* a segment that went through the whole lifecycle in one run, and a later
\* run that has written to a segment of its own
C31_Witness ==
    /\ count.runs = 2
    /\ pc = "walking"
    /\ 1 \in DOMAIN fs.gz
    /\ 1 \notin DOMAIN fs.plain
    /\ fs.gz[1].complete
    /\ Len(fs.gz[1].lines) > 1
    /\ rw.currentFile > 1
    /\ rw.currentFile \in DOMAIN fs.plain
    /\ Len(fs.plain[rw.currentFile]) > 0


\* C32 (SpecWriter): the writer's last written path is the path of the
\* latest call of WritePath that returned no error, and is empty before the
\* first; a call that returns an error leaves it as it was.
C32_LastWrittenPath ==
    [][/\ rw'.lastWrittenPath = IF Len(hist') = 0 THEN <<>>
                                ELSE hist'[Len(hist')].path
       /\ (run'.err # run.err) => rw'.lastWrittenPath = rw.lastWrittenPath]_vars

\* calls have failed for each of the reasons after a path was written
C32_Witness ==
    /\ Len(hist) > 0
    /\ rw.lastWrittenPath = hist[Len(hist)].path
    /\ run.err \in {"write", "close"}
    /\ run.errPath # rw.lastWrittenPath


\* C33 (SpecResume): when a run was stopped by the limit and a resumed run
\* has used its checkpoint and completed, a later run started with --resume
\* does not skip the source paths through that checkpoint again.
C33_CheckpointConsumedOnce ==
    (/\ Len(ends) >= 2
     /\ count.runs = Len(ends) + 1
     /\ StoppedByLimit(ends[Len(ends) - 1])
     /\ ends[Len(ends)].resume
     /\ ends[Len(ends)].outcome = "completed"
     /\ LinesFit
     /\ pc = "walking"
     /\ run.resume)
        => ~(/\ run.resumePath = ends[Len(ends) - 1].lastPath
             /\ run.resumeReached
             /\ run.pos > Position(run.walk, run.resumePath))


\* C34 (Spec): the plaintext and the compressed file of every segment number
\* that was present when a run started are left as they were by every step
\* of the run, its start included, and the writer of the run works on a
\* number above all of them.
C34_PresentSegmentsUntouched ==
    [][/\ \A n \in run'.present :
             /\ (n \in DOMAIN fs'.plain) = (n \in DOMAIN fs.plain)
             /\ (n \in DOMAIN fs'.gz) = (n \in DOMAIN fs.gz)
             /\ n \in DOMAIN fs.plain => fs'.plain[n] = fs.plain[n]
             /\ n \in DOMAIN fs.gz => fs'.gz[n] = fs.gz[n]
       /\ pc' = "walking" => /\ rw'.currentFile > SetMax(run'.present)
                             /\ run'.startFileNum > SetMax(run'.present)]_vars

\* a second run has written to its own segment while a plaintext and a
\* compressed file of the first run are present
C34_Witness ==
    /\ count.runs = 2
    /\ pc = "walking"
    /\ \E n \in run.present : n \in DOMAIN fs.plain
    /\ \E n \in run.present : n \in DOMAIN fs.gz /\ fs.gz[n].complete
    /\ \E k \in 1..Len(hist) : hist[k].run = 2 /\ hist[k].seg > SetMax(run.present)


\* C35 (SpecPure): for every line and every prior path, reconstructPath
\* returns a path or one of its errors; it does not panic.
C35_DecodeTotal ==
    codec.pc \in {"parsed", "decoded"}
        => codec.out.err \in {"none", "format", "levels", "depth"}


\* C36 (SpecPure): a line that calculateDeltaPath writes with zero levels,
\* the bare suffix, is decoded after the same prior path as a suffix of
\* zero levels: the result is the prior path's directory joined with the
\* line, without error, also when the suffix begins with '-'.
C36_ZeroLevelReadBack ==
    (/\ codec.pc = "decoded"
     /\ codec.prev # <<>>
     /\ Len(Split(Dir(codec.prev), Sep))
           = CommonLen(Split(Dir(codec.prev), Sep), Split(Dir(codec.cur), Sep)))
        => codec.out = Decoded(Join(Dir(codec.prev), codec.tok))


\* C37 (SpecWriter): when inflateDirectory stops on a line that does not
\* decode, line L of segment S, its output holds the paths of the lines of
\* the segments before S and of the first L - 1 lines of S, in order, and
\* nothing else; when it ends without error the output has one path for
\* each line of the segments it read.
C37_OutputOnAbort ==
    /\ inflated.err \in DecodeErrors
          => LET all == LinesInOrder(inflated.order)
                 before == LinesInOrder(SubSeq(inflated.order, 1,
                                               Len(inflated.order) - 1))
                 n == Len(inflated.out)
             IN  /\ inflated.seg = inflated.order[Len(inflated.order)]
                 /\ inflated.line >= 1
                 /\ n = Len(before) + inflated.line - 1
                 /\ n < Len(all)
                 /\ \A k \in 1..n :
                       reconstructPath(IF k = 1 THEN <<>> ELSE inflated.out[k - 1],
                                       all[k]) = Decoded(inflated.out[k])
                 /\ reconstructPath(IF n = 0 THEN <<>> ELSE inflated.out[n],
                                    all[n + 1]).err = inflated.err
    /\ (inflated # NoInflate /\ inflated.err = "nil")
          => Len(inflated.out) = Len(LinesInOrder(inflated.order))

\* the inflation stopped in the second segment, after paths of both segments
C37_Witness ==
    /\ inflated.err \in DecodeErrors
    /\ Len(inflated.order) = 2
    /\ inflated.line = 2
    /\ Len(inflated.out) = Len(fs.gz[inflated.order[1]].lines) + 1
    /\ Len(fs.gz[inflated.order[1]].lines) > 0


\* the lines the writer has written in all
HistLines == [k \in 1..Len(hist) |-> hist[k].line]

=============================================================================
